---------------------------- MODULE Spec2Model ----------------------------
(***************************************************************************)
(* Hill Climb Racing, advanced edition (src/advanced_game.py): terrain     *)
(* generation, ground queries, vehicle physics, pickups, particles and the *)
(* game driver.                                                            *)
(*                                                                         *)
(* Number representation.  The program computes with Python floats.  Here  *)
(* lengths, velocities, fuel and health are fixed-point integers counted   *)
(* in hundredths (UNIT = 100 stands for 1.0), angles are in milliradians   *)
(* and sines/cosines/random fractions in thousandths.  A product with a    *)
(* fractional factor is rounded toward zero.                               *)
(***************************************************************************)
EXTENDS Integers, Sequences, FiniteSets, TLC

(***************************************************************************)
(* Bounds of the model.                                                    *)
(***************************************************************************)
\* Length of the generated terrain in world units (the program uses
\* SCREEN_WIDTH * 12).
TERRAIN_LENGTH == 220

\* Key events (presses and releases) in one session of the game.
MaxKeyEvents == 5

\* Frames spent in the PLAYING state in one session of the game.
MaxFrames == 30

\* frames between two key events of the player during play
KeyPeriod == 10

(***************************************************************************)
(* Arithmetic helpers.                                                     *)
(***************************************************************************)
UNIT == 100

Abs(a) == IF a < 0 THEN -a ELSE a

Min(a, b) == IF a < b THEN a ELSE b

Max(a, b) == IF a > b THEN a ELSE b

\* a / b rounded toward zero (b > 0)
QuoT(a, b) == IF a >= 0 THEN a \div b ELSE -((-a) \div b)

\* a * n / d rounded toward zero: multiplication by the fraction n/d
Scale(a, n, d) == QuoT(a * n, d)

(***************************************************************************)
(* math.pi, math.sin, math.cos, math.atan2 in milliradians / thousandths.  *)
(* Sine and cosine use Bhaskara's rational approximation (exact at 0, at   *)
(* pi/2 and at pi, error below 0.002), the arctangent the approximation    *)
(* z / (1 + 0.28 z^2) (error below 0.005).                                 *)
(***************************************************************************)
PI == 3142

HALF_PI == 1571

TWO_PI == 6283

\* sine of a in [0, PI], rounded to the nearest thousandth
SinHalfTurn(a) ==
    LET q == a * (PI - a)
        den == (5 * PI * PI - 4 * q) \div 100
    IN  (16000 * (q \div 100) + den \div 2) \div den

\* sine of a >= 0
SinPos(a) ==
    LET r == a % TWO_PI
    IN  IF r <= PI THEN SinHalfTurn(r) ELSE -SinHalfTurn(Min(r - PI, PI))

\* math.sin
Sin(a) == IF a >= 0 THEN SinPos(a) ELSE -SinPos(-a)

\* math.cos
Cos(a) == SinPos(Abs(a) + HALF_PI)

\* arctangent of z / 1000 for 0 <= z <= 1000
AtanUnit(z) == (z * 1000) \div (1000 + (28 * z * z) \div 100000)

\* arctangent of dy / dx for dy >= 0, dx > 0
AtanPos(dy, dx) ==
    IF dy <= dx THEN AtanUnit((1000 * dy) \div dx)
    ELSE HALF_PI - AtanUnit((1000 * dx) \div dy)

\* math.atan2(dy, dx)
Atan2(dy, dx) ==
    LET s == IF dy < 0 THEN -1 ELSE 1
    IN  IF dx > 0 THEN s * AtanPos(Abs(dy), dx)
        ELSE IF dx < 0 THEN s * (PI - AtanPos(Abs(dy), -dx))
        ELSE IF dy = 0 THEN 0 ELSE s * HALF_PI

(***************************************************************************)
(* Python's module-level random generator.  Its state is one value; seed() *)
(* sets it from the seed alone and every draw advances it, so the stream   *)
(* of draws after seed(n) is a function of n.  The Mersenne Twister is     *)
(* stood in for by a 16-bit linear congruential generator.                 *)
(***************************************************************************)
RNG_MODULUS == 65536

\* the generator's state after one draw
RngNext(s) == (s * 25173 + 13849) % RNG_MODULUS

\* the fraction in [0, 1), in thousandths, that a draw reaching state s returns
RngFrac(s) == (s * 1000) \div RNG_MODULUS

\* generate_terrain without the random.seed of line 83: the state stays
RngSeedMissing(n, s) == s

\* random.seed(n): the state depends on n only, not on the state before
RngSeed(n, s) == (n * 7919 + 12345) % RNG_MODULUS

\* random.uniform(a, b) from the fraction f
Uniform(a, b, f) == a + Scale(b - a, f, 1000)

\* random.randint(a, b) from the fraction f
RandInt(a, b, f) == a + (f * (b - a + 1)) \div 1000

\* random.choice over n items from the fraction f: the index, 1-based
ChoiceIndex(n, f) == 1 + (f * n) \div 1000

(***************************************************************************)
(* class Terrain.                                                          *)
(***************************************************************************)
\* one coin marker
Coin(x, y) == [x |-> x, y |-> y, collected |-> FALSE, value |-> 1]

\* one fuel-can marker
FuelCan(x, y) == [x |-> x, y |-> y, collected |-> FALSE, fuel |-> 35 * UNIT]

\* the target height of the three sine hills at sample x (world units)
TargetY(x, seed) ==
    550 * UNIT
    + (Sin((x * 1000) \div 300 + seed * 1000) * 80) \div 10
    + (Sin((x * 1000) \div 600 + seed * 2 * 1000) * 60) \div 10
    + (Sin((x * 1000) \div 1200 + seed * 3 * 1000) * 40) \div 10

\* The iteration of the generation loop without the test x % 150 == 0 of
\* line 112: t is the
\* terrain being built, with the running height t.y and the generator t.rng.
GenStepAnySample(x, t) ==
    LET y1 == t.y + Scale(TargetY(x, t.seed) - t.y, 2, 10)
        y2 == Max(200 * UNIT, Min(700 * UNIT, y1))
        \* small random bumps
        s1 == RngNext(t.rng)
        bump == RngFrac(s1) < 150
        s2 == IF bump THEN RngNext(s1) ELSE s1
        y == IF bump THEN y2 + Uniform(-8 * UNIT, 8 * UNIT, RngFrac(s2)) ELSE y2
        pts1 == Append(t.points, <<x * UNIT, y>>)
        \* hazards
        s3 == RngNext(s2)
        hazard == RngFrac(s3) < 30 * t.difficulty
        hole_depth == (60 * (5 + 10 * t.difficulty)) \div 10
        hole_width == (80 * (5 + 5 * t.difficulty)) \div 10
        pts == IF hazard
               THEN pts1 \o << <<(x + 20) * UNIT, y + hole_depth * UNIT>>,
                               <<(x + 40) * UNIT, y>> >>
               ELSE pts1
        hz == IF hazard
              THEN Append(t.hazards, [x |-> (x + 20) * UNIT,
                                      depth |-> hole_depth * UNIT,
                                      width |-> hole_width * UNIT])
              ELSE t.hazards
        prev_y == pts[Len(pts) - 1][2]
        \* coins
        s4 == RngNext(s3)
        coin == /\ RngFrac(s4) < 30
                /\ Len(pts) > 5
                /\ Len(pts) >= 2
                /\ Abs(y - prev_y) < 5 * UNIT
        \* fuel cans
        s5 == RngNext(s4)
        can == /\ RngFrac(s5) < 15
               /\ Len(pts) > 5
               /\ Len(pts) >= 2
               /\ Abs(y - prev_y) < 8 * UNIT
    IN  [t EXCEPT !.y = y,
                  !.rng = s5,
                  !.points = pts,
                  !.hazards = hz,
                  !.coins = IF coin THEN Append(@, Coin(x * UNIT, y - 60 * UNIT))
                            ELSE @,
                  !.fuel_cans = IF can
                                THEN Append(@, FuelCan(x * UNIT, y - 65 * UNIT))
                                ELSE @]

\* One iteration of the generation loop at sample x (world units): t is the
\* terrain being built, with the running height t.y and the generator t.rng.
GenStep(x, t) ==
    LET y1 == t.y + Scale(TargetY(x, t.seed) - t.y, 2, 10)
        y2 == Max(200 * UNIT, Min(700 * UNIT, y1))
        \* small random bumps
        s1 == RngNext(t.rng)
        bump == RngFrac(s1) < 150
        s2 == IF bump THEN RngNext(s1) ELSE s1
        y == IF bump THEN y2 + Uniform(-8 * UNIT, 8 * UNIT, RngFrac(s2)) ELSE y2
        pts1 == Append(t.points, <<x * UNIT, y>>)
        \* hazards
        s3 == RngNext(s2)
        hazard == RngFrac(s3) < 30 * t.difficulty /\ x % 150 = 0
        hole_depth == (60 * (5 + 10 * t.difficulty)) \div 10
        hole_width == (80 * (5 + 5 * t.difficulty)) \div 10
        pts == IF hazard
               THEN pts1 \o << <<(x + 20) * UNIT, y + hole_depth * UNIT>>,
                               <<(x + 40) * UNIT, y>> >>
               ELSE pts1
        hz == IF hazard
              THEN Append(t.hazards, [x |-> (x + 20) * UNIT,
                                      depth |-> hole_depth * UNIT,
                                      width |-> hole_width * UNIT])
              ELSE t.hazards
        prev_y == pts[Len(pts) - 1][2]
        \* coins
        s4 == RngNext(s3)
        coin == /\ RngFrac(s4) < 30
                /\ Len(pts) > 5
                /\ Len(pts) >= 2
                /\ Abs(y - prev_y) < 5 * UNIT
        \* fuel cans
        s5 == RngNext(s4)
        can == /\ RngFrac(s5) < 15
               /\ Len(pts) > 5
               /\ Len(pts) >= 2
               /\ Abs(y - prev_y) < 8 * UNIT
    IN  [t EXCEPT !.y = y,
                  !.rng = s5,
                  !.points = pts,
                  !.hazards = hz,
                  !.coins = IF coin THEN Append(@, Coin(x * UNIT, y - 60 * UNIT))
                            ELSE @,
                  !.fuel_cans = IF can
                                THEN Append(@, FuelCan(x * UNIT, y - 65 * UNIT))
                                ELSE @]

\* for x in range(x, int(TERRAIN_LENGTH), 5), continued from the terrain t.
\* (The test on t.rng is always false: it makes TLC evaluate t before it
\* descends, which keeps the evaluation stack shallow.)
RECURSIVE GenLoop(_, _)
GenLoop(x, t) ==
    IF x >= TERRAIN_LENGTH \/ t.rng < 0 THEN t
    ELSE GenLoop(x + 5, GenStep(x, t))

\* Terrain.generate_terrain, started with the generator in state rng0
GenerateTerrain(seed, difficulty, rng0) ==
    GenLoop(0, [seed |-> seed, difficulty |-> difficulty,
                rng |-> RngSeed(seed, rng0), y |-> 550 * UNIT,
                points |-> <<>>, hazards |-> <<>>, coins |-> <<>>,
                fuel_cans |-> <<>>, hills |-> <<>>])

\* the Terrain object that a finished generation g leaves
TerrainOf(g) ==
    [seed |-> g.seed, difficulty |-> g.difficulty, points |-> g.points,
     hazards |-> g.hazards, coins |-> g.coins, fuel_cans |-> g.fuel_cans,
     hills |-> g.hills]

\* The loop of get_ground_height and get_ground_angle,
\*   for i in range(len(points) - 1): if x1 <= x <= x2: return ...
\* returns at the first segment i that brackets x; 0 when the loop ends
\* without returning.
FirstBracket(points, x) ==
    LET hits == {i \in 1..(Len(points) - 1) :
                    points[i][1] <= x /\ x <= points[i + 1][1]}
    IN  IF hits = {} THEN 0 ELSE CHOOSE i \in hits : \A j \in hits : i <= j

\* get_ground_height with the fraction 1 in place of 0 for a segment of
\* no width (line 146)
get_ground_height_frac1(points, x) ==
    IF points = <<>> THEN 600 * UNIT
    ELSE LET i == FirstBracket(points, x)
         IN  IF i = 0 THEN points[Len(points)][2]
             ELSE LET x1 == points[i][1]
                      y1 == points[i][2]
                      x2 == points[i + 1][1]
                      y2 == points[i + 1][2]
                  IN  IF x2 # x1
                      THEN y1 + QuoT((y2 - y1) * (x - x1), x2 - x1)
                      ELSE y2

\* Terrain.get_ground_height
get_ground_height(points, x) ==
    IF points = <<>> THEN 600 * UNIT
    ELSE LET i == FirstBracket(points, x)
         IN  IF i = 0 THEN points[Len(points)][2]
             ELSE LET x1 == points[i][1]
                      y1 == points[i][2]
                      x2 == points[i + 1][1]
                      y2 == points[i + 1][2]
                  IN  IF x2 # x1
                      THEN y1 + QuoT((y2 - y1) * (x - x1), x2 - x1)
                      ELSE y1

\* Terrain.get_ground_angle
get_ground_angle(points, x) ==
    IF points = <<>> THEN 0
    ELSE LET i == FirstBracket(points, x)
         IN  IF i = 0 THEN 0
             ELSE -Atan2(points[i + 1][2] - points[i][2],
                         points[i + 1][1] - points[i][1])

(***************************************************************************)
(* Game constants (module level of advanced_game.py).                      *)
(***************************************************************************)
SCREEN_HEIGHT == 800

\* GRAVITY = 0.75, in hundredths
GRAVITY == 75

\* FRICTION = 0.96, in hundredths
FRICTION == 96

\* AIR_RESISTANCE = 0.985, in thousandths
AIR_RESISTANCE == 985

\* ROLLOVER_THRESHOLD = math.pi * 0.5, in milliradians
ROLLOVER_THRESHOLD == 1571

\* FLIP_DAMAGE_THRESHOLD = math.pi * 0.75, in milliradians
FLIP_DAMAGE_THRESHOLD == 2356

\* math.pi / 3, the steering limit, in milliradians
MAX_STEER == 1047

\* CarStats(): every multiplier 1.0
DefaultStats ==
    [acceleration |-> UNIT, speed |-> UNIT, traction |-> UNIT,
     fuel_efficiency |-> UNIT, suspension |-> UNIT]

\* LEVELS of game_config.py: the seed of each level, by level index
LevelSeed == [i \in 0..4 |-> CASE i = 0 -> 42 [] i = 1 -> 123 [] i = 2 -> 456
                                [] i = 3 -> 789 [] OTHER -> 999]

\* len(CAR_COLORS)
NUM_CAR_COLORS == 6

(***************************************************************************)
(* class Wheel and class Car.                                              *)
(***************************************************************************)
\* Wheel.update: the new rotation (milliradians) for velocity v
WheelUpdate(rotation, v) ==
    IF v # 0 THEN (rotation + QuoT(v, 8)) % TWO_PI ELSE rotation

\* Car.__init__(x, y, stats) with the generator in state s; the colour is
\* random.choice(CAR_COLORS)
NewCar(x, y, stats, s) ==
    [x |-> x, y |-> y, vx |-> 0, vy |-> 0, angle |-> 0, stats |-> stats,
     front_wheel |-> 0, rear_wheel |-> 0,
     fuel |-> 100 * UNIT, max_fuel |-> 100 * UNIT,
     engine_power |-> 0, brake_power |-> 0, is_grounded |-> FALSE,
     distance_traveled |-> 0, last_x |-> x,
     health |-> 100 * UNIT, max_health |-> 100 * UNIT,
     coins_collected |-> 0, flip_damage_cooldown |-> 0, drift_power |-> 0,
     color |-> ChoiceIndex(NUM_CAR_COLORS, RngFrac(RngNext(s)))]

\* half of Car.height (50)
HALF_HEIGHT == 25

\* handle_input without the steering limits of lines 232 and 234
handle_input_unlimited(c, keys) ==
    LET a1 == IF "left" \in keys THEN c.angle + 80 ELSE c.angle
        a2 == IF "right" \in keys THEN a1 - 80 ELSE a1
        a3 == IF "left" \notin keys /\ "right" \notin keys
              THEN Scale(a2, 92, 100) ELSE a2
    IN  [c EXCEPT !.engine_power = IF "up" \in keys THEN c.stats.acceleration
                                   ELSE 0,
                  !.brake_power = IF "down" \in keys THEN 80 ELSE 0,
                  !.angle = a3]

\* Car.handle_input: keys is the set of held keys, "up" standing for
\* K_UP or K_w, "down" for K_DOWN or K_s, "left" for K_LEFT or K_a and
\* "right" for K_RIGHT or K_d
handle_input(c, keys) ==
    LET a1 == IF "left" \in keys THEN Min(c.angle + 80, MAX_STEER) ELSE c.angle
        a2 == IF "right" \in keys THEN Max(a1 - 80, -MAX_STEER) ELSE a1
        a3 == IF "left" \notin keys /\ "right" \notin keys
              THEN Scale(a2, 92, 100) ELSE a2
    IN  [c EXCEPT !.engine_power = IF "up" \in keys THEN c.stats.acceleration
                                   ELSE 0,
                  !.brake_power = IF "down" \in keys THEN 80 ELSE 0,
                  !.angle = a3]

\* lines 243-261 with the sine and the cosine of lines 249-250 exchanged
EngineStepSwapped(c) ==
    LET running == c.engine_power > 0 /\ c.fuel > 0
        vx1 == IF running
               THEN c.vx + Scale(Sin(c.angle) * c.engine_power, 8, 10000)
               ELSE c.vx
        vy1 == IF running
               THEN c.vy + Scale(Cos(c.angle) * c.engine_power, 8, 10000)
               ELSE c.vy
        fuel1 == IF running
                 THEN Max(0, c.fuel
                             - QuoT(c.engine_power * 30, c.stats.fuel_efficiency))
                 ELSE c.fuel
        vx2 == IF c.brake_power > 0 THEN Scale(vx1, 1000 - c.brake_power, 1000)
               ELSE vx1
        vy2 == IF c.brake_power > 0 THEN Scale(vy1, 1000 - c.brake_power, 1000)
               ELSE vy1
        vy3 == vy2 + Scale(GRAVITY, 1000 - c.stats.suspension, 1000)
    IN  [c EXCEPT !.flip_damage_cooldown = IF @ > 0 THEN @ - 1 ELSE @,
                  !.vx = Scale(vx2, AIR_RESISTANCE, 1000),
                  !.vy = Scale(vy3, AIR_RESISTANCE, 1000),
                  !.fuel = fuel1]

\* lines 243-261 without the test fuel > 0 of line 247: the engine runs on
\* an empty tank
EngineStepNoFuelTest(c) ==
    LET running == c.engine_power > 0
        vx1 == IF running
               THEN c.vx + Scale(Cos(c.angle) * c.engine_power, 8, 10000)
               ELSE c.vx
        vy1 == IF running
               THEN c.vy + Scale(Sin(c.angle) * c.engine_power, 8, 10000)
               ELSE c.vy
        fuel1 == IF running
                 THEN Max(0, c.fuel
                             - QuoT(c.engine_power * 30, c.stats.fuel_efficiency))
                 ELSE c.fuel
        vx2 == IF c.brake_power > 0 THEN Scale(vx1, 1000 - c.brake_power, 1000)
               ELSE vx1
        vy2 == IF c.brake_power > 0 THEN Scale(vy1, 1000 - c.brake_power, 1000)
               ELSE vy1
        vy3 == vy2 + Scale(GRAVITY, 1000 - c.stats.suspension, 1000)
    IN  [c EXCEPT !.flip_damage_cooldown = IF @ > 0 THEN @ - 1 ELSE @,
                  !.vx = Scale(vx2, AIR_RESISTANCE, 1000),
                  !.vy = Scale(vy3, AIR_RESISTANCE, 1000),
                  !.fuel = fuel1]

\* Car.update, lines 243-261: cooldown, engine, brake, gravity, air drag
EngineStep(c) ==
    LET running == c.engine_power > 0 /\ c.fuel > 0
        vx1 == IF running
               THEN c.vx + Scale(Cos(c.angle) * c.engine_power, 8, 10000)
               ELSE c.vx
        vy1 == IF running
               THEN c.vy + Scale(Sin(c.angle) * c.engine_power, 8, 10000)
               ELSE c.vy
        fuel1 == IF running
                 THEN Max(0, c.fuel
                             - QuoT(c.engine_power * 30, c.stats.fuel_efficiency))
                 ELSE c.fuel
        vx2 == IF c.brake_power > 0 THEN Scale(vx1, 1000 - c.brake_power, 1000)
               ELSE vx1
        vy2 == IF c.brake_power > 0 THEN Scale(vy1, 1000 - c.brake_power, 1000)
               ELSE vy1
        vy3 == vy2 + Scale(GRAVITY, 1000 - c.stats.suspension, 1000)
    IN  [c EXCEPT !.flip_damage_cooldown = IF @ > 0 THEN @ - 1 ELSE @,
                  !.vx = Scale(vx2, AIR_RESISTANCE, 1000),
                  !.vy = Scale(vy3, AIR_RESISTANCE, 1000),
                  !.fuel = fuel1]

\* the damage of a flip at |angle| = a: min(20, a * 5), in hundredths
RolloverDamage(a) == Min(20 * UNIT, (a * 5 * UNIT) \div 1000)

\* min(60, a * 20), in hundredths
FlipDamage(a) == Min(60 * UNIT, (a * 20 * UNIT) \div 1000)

\* lines 282-293 without the cooldown tests of lines 284 and 289
DamageStepNoCooldown(c) ==
    LET flip_angle == Abs(c.angle)
    IN  IF flip_angle > ROLLOVER_THRESHOLD /\ flip_angle < FLIP_DAMAGE_THRESHOLD
        THEN [c EXCEPT !.health = @ - RolloverDamage(flip_angle),
                       !.flip_damage_cooldown = 30]
        ELSE IF flip_angle > FLIP_DAMAGE_THRESHOLD
        THEN [c EXCEPT !.health = @ - FlipDamage(flip_angle),
                       !.flip_damage_cooldown = 60]
        ELSE c

\* Car.update, lines 282-293: flip damage of a grounded car
DamageStep(c) ==
    LET flip_angle == Abs(c.angle)
    IN  IF flip_angle > ROLLOVER_THRESHOLD /\ flip_angle < FLIP_DAMAGE_THRESHOLD
        THEN IF c.flip_damage_cooldown <= 0
             THEN [c EXCEPT !.health = @ - RolloverDamage(flip_angle),
                            !.flip_damage_cooldown = 30]
             ELSE c
        ELSE IF flip_angle > FLIP_DAMAGE_THRESHOLD
        THEN IF c.flip_damage_cooldown <= 0
             THEN [c EXCEPT !.health = @ - FlipDamage(flip_angle),
                            !.flip_damage_cooldown = 60]
             ELSE c
        ELSE c

\* lines 263-293 without the ground collision: the car is never in contact
GroundStepNoContact(c, points) == [c EXCEPT !.is_grounded = FALSE]

\* lines 263-293 with the flip damage evaluated before the alignment of
\* lines 279-280 instead of after it
GroundStepDamageFirst(c, points) ==
    LET ground_y == get_ground_height(points, c.x)
        terrain_angle == get_ground_angle(points, c.x)
    IN  IF c.y + HALF_HEIGHT * UNIT >= ground_y
        THEN [DamageStep(
                [c EXCEPT !.y = ground_y - HALF_HEIGHT * UNIT,
                          !.is_grounded = TRUE,
                          !.vy = 0,
                          !.vx = Scale(@, FRICTION * c.stats.traction,
                                       100 * UNIT)])
              EXCEPT !.angle = @ + Scale(terrain_angle - @, 15, 100)]
        ELSE [c EXCEPT !.is_grounded = FALSE]

\* Car.update, lines 263-293: ground collision, friction, alignment, damage
GroundStep(c, points) ==
    LET ground_y == get_ground_height(points, c.x)
        terrain_angle == get_ground_angle(points, c.x)
    IN  IF c.y + HALF_HEIGHT * UNIT >= ground_y
        THEN DamageStep(
               [c EXCEPT !.y = ground_y - HALF_HEIGHT * UNIT,
                         !.is_grounded = TRUE,
                         !.vy = 0,
                         !.vx = Scale(@, FRICTION * c.stats.traction, 100 * UNIT),
                         !.angle = @ + Scale(terrain_angle - @, 15, 100)])
        ELSE [c EXCEPT !.is_grounded = FALSE]

\* Car.update, lines 314-316: the fuel system
StarveStep(c) ==
    IF c.fuel <= 0 THEN [c EXCEPT !.health = Max(0, @ - UNIT \div 2)] ELSE c

\* lines 295-312 without line 310: the left wall stops the car and leaves
\* its velocity
MoveStepKeepSpeed(c) ==
    LET x1 == c.x + c.vx
        y1 == c.y + c.vy
    IN  [c EXCEPT !.x = IF x1 < 0 THEN 0 ELSE x1,
                  !.y = y1,
                  !.distance_traveled = @ + Abs(x1 - c.last_x),
                  !.last_x = x1,
                  !.front_wheel = WheelUpdate(@, c.vx),
                  !.rear_wheel = WheelUpdate(@, c.vx),
                  !.health = IF y1 > (SCREEN_HEIGHT + 300) * UNIT THEN 0 ELSE @]

\* Car.update, lines 295-312: position, distance, wheels, boundary checks
MoveStep(c) ==
    LET x1 == c.x + c.vx
        y1 == c.y + c.vy
    IN  [c EXCEPT !.x = IF x1 < 0 THEN 0 ELSE x1,
                  !.y = y1,
                  !.vx = IF x1 < 0 THEN 0 ELSE @,
                  !.distance_traveled = @ + Abs(x1 - c.last_x),
                  !.last_x = x1,
                  !.front_wheel = WheelUpdate(@, c.vx),
                  !.rear_wheel = WheelUpdate(@, c.vx),
                  !.health = IF y1 > (SCREEN_HEIGHT + 300) * UNIT THEN 0 ELSE @]

\* Car.update(terrain)
CarUpdate(c, points) == StarveStep(MoveStep(GroundStep(EngineStep(c), points)))

\* collect_coin without the test of line 320: the coin is counted again
CoinCarAgain(c, coin) == [c EXCEPT !.coins_collected = @ + 1]

\* Car.collect_coin(coin): the car afterwards
CoinCar(c, coin) ==
    IF ~coin.collected THEN [c EXCEPT !.coins_collected = @ + 1] ELSE c

\* collect_coin without line 322: the marker stays uncollected
CoinMarkerKept(coin) == coin

\* Car.collect_coin(coin): the marker afterwards
CoinMarker(coin) ==
    IF ~coin.collected THEN [coin EXCEPT !.collected = TRUE] ELSE coin

\* Car.collect_coin(coin): the value returned
CoinResult(coin) == ~coin.collected

\* collect_fuel without the min(max_fuel, ...) of line 330
FuelCarUncapped(c, can) ==
    IF ~can.collected THEN [c EXCEPT !.fuel = @ + can.fuel] ELSE c

\* Car.collect_fuel(fuel_can): the car afterwards
FuelCar(c, can) ==
    IF ~can.collected THEN [c EXCEPT !.fuel = Min(c.max_fuel, @ + can.fuel)]
    ELSE c

\* collect_fuel emptying the can that it marks
FuelMarkerDrained(can) ==
    IF ~can.collected THEN [can EXCEPT !.collected = TRUE, !.fuel = 0]
    ELSE can

\* Car.collect_fuel(fuel_can): the marker afterwards
FuelMarker(can) ==
    IF ~can.collected THEN [can EXCEPT !.collected = TRUE] ELSE can

\* Car.collect_fuel(fuel_can): the value returned
FuelResult(can) == ~can.collected

(***************************************************************************)
(* class ParticleEffect.                                                   *)
(***************************************************************************)
\* The particles of a new effect at (x, y): k particles still to be made,
\* the generator in state s.  Each takes five draws: vx, vy, lifetime, size
\* and colour.  The result holds the particles and the generator afterwards.
RECURSIVE NewParticles(_, _, _, _)
NewParticles(k, s, x, y) ==
    IF k = 0 THEN [particles |-> <<>>, rng |-> s]
    ELSE LET s1 == RngNext(s)
             s2 == RngNext(s1)
             s3 == RngNext(s2)
             s4 == RngNext(s3)
             s5 == RngNext(s4)
             lifetime == RandInt(40, 70, RngFrac(s3))
             p == [x |-> x, y |-> y,
                   vx |-> Uniform(-5 * UNIT, 5 * UNIT, RngFrac(s1)),
                   vy |-> Uniform(-6 * UNIT, -1 * UNIT, RngFrac(s2)),
                   lifetime |-> lifetime, max_lifetime |-> lifetime,
                   size |-> RandInt(3, 8, RngFrac(s4)),
                   color |-> ChoiceIndex(3, RngFrac(s5))]
             rest == NewParticles(k - 1, s5, x, y)
         IN  [particles |-> <<p>> \o rest.particles, rng |-> rest.rng]

\* ParticleEffect(x, y, "dust"): count = 20, random.randint(count - 5, count)
\* particles
NewEffect(x, y, s) ==
    LET s0 == RngNext(s)
    IN  NewParticles(RandInt(20 - 5, 20, RngFrac(s0)), s0, x, y)

\* one particle after the body of the loop of ParticleEffect.update
ParticleStep(p) ==
    [p EXCEPT !.x = @ + p.vx, !.y = @ + p.vy, !.vy = @ + UNIT \div 4,
              !.lifetime = @ - 1]

\* ParticleEffect.update with `lifetime < 0` as the test of line 453
EffectUpdateLate(ps) ==
    SelectSeq([i \in 1..Len(ps) |-> ParticleStep(ps[i])],
              LAMBDA p : ~(p.lifetime < 0))

\* ParticleEffect.update: the particles that remain
EffectUpdate(ps) ==
    SelectSeq([i \in 1..Len(ps) |-> ParticleStep(ps[i])],
              LAMBDA p : ~(p.lifetime <= 0))

\* line 892 without its filter: every effect is updated and kept
PoolUpdateKeepAll(pool) == [i \in 1..Len(pool) |-> EffectUpdate(pool[i])]

\* [p for p in self.particles if p.update()]
PoolUpdate(pool) ==
    SelectSeq([i \in 1..Len(pool) |-> EffectUpdate(pool[i])],
              LAMBDA ps : Len(ps) > 0)

(***************************************************************************)
(* class Game: the state.                                                  *)
(***************************************************************************)
VARIABLES
    running,          \* Game.running
    game_state,       \* Game.game_state
    car_stats,        \* Game.car_stats, read from the save file
    total_coins,      \* Game.total_coins
    saved_coins,      \* save_manager.data["total_coins"]
    current_level,    \* Game.current_level
    terrain,          \* Game.terrain
    car,              \* Game.car
    particles,        \* Game.particles: each effect is its particle list
    camera_x,         \* Game.camera_x
    menu_selected,    \* Game.menu_selected
    level_selected,   \* Game.level_selected
    pause_selected,   \* Game.pause_selected
    rng,              \* the state of Python's random generator
    keys,             \* the keys held down (pygame.key.get_pressed)
    events,           \* number of key events so far
    frames,           \* number of PLAYING frames so far
    probe             \* the last call made directly on a Car or a Terrain

vars == <<running, game_state, car_stats, total_coins, saved_coins,
          current_level, terrain, car, particles, camera_x, menu_selected,
          level_selected, pause_selected, rng, keys, events, frames, probe>>

\* Game.terrain = None
NoTerrain ==
    [seed |-> 0, difficulty |-> 0, points |-> <<>>, hazards |-> <<>>,
     coins |-> <<>>, fuel_cans |-> <<>>, hills |-> <<>>]

\* Game.car = None
NoCar == [NewCar(0, 0, DefaultStats, 0) EXCEPT !.color = 0]

NoProbe == [op |-> "none", arg |-> 0, ret |-> 0]

(***************************************************************************)
(* class Game: the operations.                                             *)
(***************************************************************************)
\* dist < 50 for the car c and the marker m (lines 901-902, 909-910)
Near(c, m) ==
    LET dx == c.x - m.x
        dy == c.y - m.y
    IN  /\ Abs(dx) < 50 * UNIT
        /\ Abs(dy) < 50 * UNIT
        /\ dx * dx + dy * dy < (50 * UNIT) * (50 * UNIT)

\* Game.update, lines 898-904: the coin loop from marker i on; g holds the
\* car, the coin markers and total_coins
RECURSIVE CoinLoop(_, _)
CoinLoop(i, g) ==
    IF i > Len(g.coins) THEN g
    ELSE LET coin == g.coins[i]
         IN  IF ~coin.collected /\ Near(g.car, coin)
             THEN CoinLoop(i + 1,
                           [car |-> CoinCar(g.car, coin),
                            coins |-> [g.coins EXCEPT ![i] = CoinMarker(coin)],
                            total |-> g.total + coin.value])
             ELSE CoinLoop(i + 1, g)

\* Game.update, lines 906-911: the fuel-can loop from marker i on
RECURSIVE FuelLoop(_, _)
FuelLoop(i, g) ==
    IF i > Len(g.cans) THEN g
    ELSE LET can == g.cans[i]
         IN  IF ~can.collected /\ Near(g.car, can)
             THEN FuelLoop(i + 1,
                           [car |-> FuelCar(g.car, can),
                            cans |-> [g.cans EXCEPT ![i] = FuelMarker(can)]])
             ELSE FuelLoop(i + 1, g)

\* Game.update, line 914: the game-over condition
GameOver(c) == c.health <= 0 \/ c.fuel <= 0

\* Game.start_game(level_idx)
StartGame(level_idx) ==
    LET g == GenerateTerrain(LevelSeed[level_idx], level_idx + 1, rng)
    IN  /\ game_state' = "PLAYING"
        /\ current_level' = level_idx
        /\ terrain' = TerrainOf(g)
        /\ car' = NewCar(100 * UNIT, 300 * UNIT, car_stats, g.rng)
        /\ rng' = RngNext(g.rng)
        /\ particles' = <<>>
        /\ camera_x' = 0
        /\ pause_selected' = 0

\* Game.update with the game-over test of line 914 made right after
\* Car.update, before the pickups
UpdateWithinEarlyCheck(max_frames) ==
    /\ running
    /\ game_state = "PLAYING"
    /\ frames < max_frames
    /\ LET c1 == CarUpdate(handle_input(car, keys), terrain.points)
           spawn == c1.is_grounded /\ (c1.engine_power > 0 \/ c1.brake_power > 0)
           effect == NewEffect(c1.x, c1.y + 25 * UNIT, rng)
           pool == IF spawn THEN Append(particles, effect.particles)
                   ELSE particles
           gc == CoinLoop(1, [car |-> c1, coins |-> terrain.coins,
                              total |-> total_coins])
           gf == FuelLoop(1, [car |-> gc.car, cans |-> terrain.fuel_cans])
       IN  /\ car' = gf.car
           /\ rng' = IF spawn THEN effect.rng ELSE rng
           /\ particles' = PoolUpdate(pool)
           /\ camera_x' = camera_x + Scale(c1.x - 200 * UNIT - camera_x, 1, 10)
           /\ terrain' = [terrain EXCEPT !.coins = gc.coins,
                                         !.fuel_cans = gf.cans]
           /\ total_coins' = gc.total
           /\ IF GameOver(c1)
              THEN game_state' = "GAME_OVER" /\ saved_coins' = gc.total
              ELSE UNCHANGED <<game_state, saved_coins>>
    /\ frames' = frames + 1
    /\ UNCHANGED <<running, car_stats, current_level, menu_selected,
                   level_selected, pause_selected, keys, events, probe>>

\* Game.update while PLAYING, in a run of at most max_frames frames
UpdateWithin(max_frames) ==
    /\ running
    /\ game_state = "PLAYING"
    /\ frames < max_frames
    /\ LET c1 == CarUpdate(handle_input(car, keys), terrain.points)
           spawn == c1.is_grounded /\ (c1.engine_power > 0 \/ c1.brake_power > 0)
           effect == NewEffect(c1.x, c1.y + 25 * UNIT, rng)
           pool == IF spawn THEN Append(particles, effect.particles)
                   ELSE particles
           gc == CoinLoop(1, [car |-> c1, coins |-> terrain.coins,
                              total |-> total_coins])
           gf == FuelLoop(1, [car |-> gc.car, cans |-> terrain.fuel_cans])
       IN  /\ car' = gf.car
           /\ rng' = IF spawn THEN effect.rng ELSE rng
           /\ particles' = PoolUpdate(pool)
           /\ camera_x' = camera_x + Scale(c1.x - 200 * UNIT - camera_x, 1, 10)
           /\ terrain' = [terrain EXCEPT !.coins = gc.coins,
                                         !.fuel_cans = gf.cans]
           /\ total_coins' = gc.total
           /\ IF GameOver(gf.car)
              THEN game_state' = "GAME_OVER" /\ saved_coins' = gc.total
              ELSE UNCHANGED <<game_state, saved_coins>>
    /\ frames' = frames + 1
    /\ UNCHANGED <<running, car_stats, current_level, menu_selected,
                   level_selected, pause_selected, keys, events, probe>>

\* Game.update while PLAYING
Update == UpdateWithin(MaxFrames)

\* Game.update in any other state: nothing changes
IdleUpdate ==
    /\ running
    /\ game_state # "PLAYING"
    /\ UNCHANGED vars

\* Game._handle_menu_selection
MenuSelection ==
    /\ game_state' = CASE menu_selected \in {0, 1} -> "LEVEL_SELECT"
                       [] menu_selected = 2 -> "GARAGE"
                       [] menu_selected = 3 -> "SHOP"
                       [] menu_selected = 4 -> "ACHIEVEMENTS"
                       [] OTHER -> game_state
    /\ running' = (menu_selected # 6)
    /\ UNCHANGED <<current_level, terrain, car, particles, camera_x,
                   menu_selected, level_selected, pause_selected, rng>>

\* Game._handle_pause_selection
PauseSelection ==
    IF pause_selected = 1
    THEN /\ StartGame(current_level)
         /\ UNCHANGED <<running, menu_selected, level_selected>>
    ELSE /\ game_state' = CASE pause_selected = 0 -> "PLAYING"
                            [] pause_selected = 2 -> "MENU"
                            [] OTHER -> game_state
         /\ running' = (pause_selected # 3)
         /\ UNCHANGED <<current_level, terrain, car, particles, camera_x,
                        menu_selected, level_selected, pause_selected, rng>>

\* a change of game_state that also drops the particle effects
GoToClearing(state) ==
    /\ game_state' = state
    /\ particles' = <<>>
    /\ UNCHANGED <<running, current_level, terrain, car, camera_x,
                   menu_selected, level_selected, pause_selected, rng>>

\* the frame of Game._handle_key_press when only game_state changes
GoTo(state) ==
    /\ game_state' = state
    /\ UNCHANGED <<running, current_level, terrain, car, particles, camera_x,
                   menu_selected, level_selected, pause_selected, rng>>

\* a key press that the current state ignores
Ignore ==
    UNCHANGED <<running, game_state, current_level, terrain, car, particles,
                camera_x, menu_selected, level_selected, pause_selected, rng>>

\* Game._handle_key_press(key)
HandleKeyPress(key) ==
    CASE game_state = "MENU" ->
           CASE key = "up" ->
                  /\ menu_selected' = (menu_selected - 1) % 7
                  /\ UNCHANGED <<running, game_state, current_level, terrain,
                                 car, particles, camera_x, level_selected,
                                 pause_selected, rng>>
             [] key = "down" ->
                  /\ menu_selected' = (menu_selected + 1) % 7
                  /\ UNCHANGED <<running, game_state, current_level, terrain,
                                 car, particles, camera_x, level_selected,
                                 pause_selected, rng>>
             [] key = "return" -> MenuSelection
             [] OTHER -> Ignore
      [] game_state = "LEVEL_SELECT" ->
           CASE key = "up" ->
                  /\ level_selected' = (level_selected - 1) % 5
                  /\ UNCHANGED <<running, game_state, current_level, terrain,
                                 car, particles, camera_x, menu_selected,
                                 pause_selected, rng>>
             [] key = "down" ->
                  /\ level_selected' = (level_selected + 1) % 5
                  /\ UNCHANGED <<running, game_state, current_level, terrain,
                                 car, particles, camera_x, menu_selected,
                                 pause_selected, rng>>
             [] key = "return" ->
                  /\ StartGame(level_selected)
                  /\ UNCHANGED <<running, menu_selected, level_selected>>
             [] key = "escape" -> GoTo("MENU")
             [] OTHER -> Ignore
      [] game_state = "PLAYING" ->
           IF key = "escape" THEN GoTo("PAUSED") ELSE Ignore
      [] game_state = "PAUSED" ->
           CASE key = "escape" -> GoTo("PLAYING")
             [] key = "up" ->
                  /\ pause_selected' = (pause_selected - 1) % 4
                  /\ UNCHANGED <<running, game_state, current_level, terrain,
                                 car, particles, camera_x, menu_selected,
                                 level_selected, rng>>
             [] key = "down" ->
                  /\ pause_selected' = (pause_selected + 1) % 4
                  /\ UNCHANGED <<running, game_state, current_level, terrain,
                                 car, particles, camera_x, menu_selected,
                                 level_selected, rng>>
             [] key = "return" -> PauseSelection
             [] OTHER -> Ignore
      [] game_state = "GAME_OVER" ->
           IF key = "space" THEN GoTo("MENU") ELSE Ignore
      [] game_state \in {"GARAGE", "SHOP", "ACHIEVEMENTS"} ->
           IF key = "escape" THEN GoTo("MENU") ELSE Ignore
      [] OTHER -> Ignore

\* the keys that pygame reports as held while they are down
HeldKeys == {"up", "down", "left", "right"}

Keys == HeldKeys \cup {"return", "escape", "space"}

\* the player presses and releases keys between two frames of a menu, and
\* during play once every KeyPeriod frames
MayPress == game_state # "PLAYING" \/ frames % KeyPeriod = 0

\* Game.handle_events: one KEYDOWN event
KeyDown(key) ==
    /\ running
    /\ events < MaxKeyEvents
    /\ MayPress
    /\ key \notin keys
    /\ HandleKeyPress(key)
    /\ keys' = IF key \in HeldKeys THEN keys \cup {key} ELSE keys
    /\ events' = events + 1
    /\ UNCHANGED <<car_stats, total_coins, saved_coins, frames, probe>>

\* a held key is released: no handler runs
KeyUp(key) ==
    /\ running
    /\ events < MaxKeyEvents
    /\ MayPress
    /\ key \in keys
    /\ keys' = keys \ {key}
    /\ events' = events + 1
    /\ UNCHANGED <<running, game_state, car_stats, total_coins, saved_coins,
                   current_level, terrain, car, particles, camera_x,
                   menu_selected, level_selected, pause_selected, rng, frames,
                   probe>>

\* the car_stats that the save file may hold: the defaults, and a car with
\* a poor fuel efficiency (0.05)
SaveStats ==
    {DefaultStats, [DefaultStats EXCEPT !.fuel_efficiency = 5]}

\* Game.__init__
Init ==
    /\ running = TRUE
    /\ game_state = "MENU"
    /\ car_stats \in SaveStats
    /\ total_coins = 0
    /\ saved_coins = 0
    /\ current_level = 0
    /\ terrain = NoTerrain
    /\ car = NoCar
    /\ particles = <<>>
    /\ camera_x = 0
    /\ menu_selected = 0
    /\ level_selected = 0
    /\ pause_selected = 0
    /\ rng = 4321
    /\ keys = {}
    /\ events = 0
    /\ frames = 0
    /\ probe = NoProbe

Next ==
    \/ \E key \in Keys : KeyDown(key)
    \/ \E key \in HeldKeys : KeyUp(key)
    \/ Update
    \/ IdleUpdate

Spec == Init /\ [][Next]_vars

(***************************************************************************)
(* class Terrain on its own: generations with the generator in any state,  *)
(* and height and angle queries at sample points, between them and beyond  *)
(* both ends.                                                              *)
(***************************************************************************)
\* random draws made between generations
MaxDraws == 2

\* generations in one run
MaxGenerations == 2

\* Terrain(seed, difficulty) as Game.start_game builds it for each level,
\* and two more difficulties for the seed of the first level: the hardest
\* and none
TerrainInputs ==
    {<<LevelSeed[i], i + 1>> : i \in 0..4} \cup {<<42, 5>>, <<42, 0>>}

\* the x of the queries: before the first sample, the first sample, inside
\* the first segment, at and around the samples 150 and 300 where a hazard
\* may sit, the last sample, and beyond it
QueryXs ==
    {-5 * UNIT, 0, 250, 150 * UNIT, 155 * UNIT, 170 * UNIT, 180 * UNIT,
     305 * UNIT, (TERRAIN_LENGTH - 5) * UNIT, (TERRAIN_LENGTH + 20) * UNIT}

\* Terrain(seed, difficulty): __init__ runs generate_terrain
NewTerrain(seed, difficulty) ==
    LET g == GenerateTerrain(seed, difficulty, rng)
    IN  /\ frames < MaxGenerations
        /\ terrain' = TerrainOf(g)
        /\ rng' = g.rng
        /\ frames' = frames + 1
        /\ probe' = [op |-> "generate", arg |-> seed, ret |-> difficulty]
        /\ UNCHANGED <<running, game_state, car_stats, total_coins,
                       saved_coins, current_level, car, particles, camera_x,
                       menu_selected, level_selected, pause_selected, keys,
                       events>>

\* any other use of the random module: one draw
Draw ==
    /\ events < MaxDraws
    /\ rng' = RngNext(rng)
    /\ events' = events + 1
    /\ probe' = [op |-> "random", arg |-> 0, ret |-> RngFrac(RngNext(rng))]
    /\ UNCHANGED <<running, game_state, car_stats, total_coins, saved_coins,
                   current_level, terrain, car, particles, camera_x,
                   menu_selected, level_selected, pause_selected, keys, frames>>

\* terrain.get_ground_height(x)
QueryHeight(x) ==
    /\ terrain # NoTerrain
    /\ probe' = [op |-> "get_ground_height", arg |-> x,
                 ret |-> get_ground_height(terrain.points, x)]
    /\ UNCHANGED <<running, game_state, car_stats, total_coins, saved_coins,
                   current_level, terrain, car, particles, camera_x,
                   menu_selected, level_selected, pause_selected, rng, keys,
                   events, frames>>

\* terrain.get_ground_angle(x)
QueryAngle(x) ==
    /\ terrain # NoTerrain
    /\ probe' = [op |-> "get_ground_angle", arg |-> x,
                 ret |-> get_ground_angle(terrain.points, x)]
    /\ UNCHANGED <<running, game_state, car_stats, total_coins, saved_coins,
                   current_level, terrain, car, particles, camera_x,
                   menu_selected, level_selected, pause_selected, rng, keys,
                   events, frames>>

TerrainNext ==
    \/ \E in \in TerrainInputs : NewTerrain(in[1], in[2])
    \/ Draw
    \/ \E x \in QueryXs : QueryHeight(x)
    \/ \E x \in QueryXs : QueryAngle(x)

\* no Game: the module-level generator in some state, no terrain yet
TerrainInit ==
    /\ running = TRUE
    /\ game_state = "MENU"
    /\ car_stats = DefaultStats
    /\ total_coins = 0
    /\ saved_coins = 0
    /\ current_level = 0
    /\ terrain = NoTerrain
    /\ car = NoCar
    /\ particles = <<>>
    /\ camera_x = 0
    /\ menu_selected = 0
    /\ level_selected = 0
    /\ pause_selected = 0
    /\ rng = 4321
    /\ keys = {}
    /\ events = 0
    /\ frames = 0
    /\ probe = NoProbe

TerrainSpec == TerrainInit /\ [][TerrainNext]_vars

(***************************************************************************)
(* class Car on its own: a car on the terrain of the last level, driven    *)
(* tick by tick with handle_input and update, its orientation forced as in *)
(* the rollover scenarios, and collect_coin and collect_fuel called on any *)
(* marker.                                                                 *)
(***************************************************************************)
\* ticks of one car
MaxCarTicks == 10

\* calls other than ticks made on one car
MaxCarOps == 2

\* ticks that a flipped car is left alone until its cooldown has run out
SettleTicks == 70

\* the orientations that a scenario forces: flip_threshold + 0.1, beyond a
\* half turn to either side, and between the two thresholds
ForcedAngles == {FLIP_DAMAGE_THRESHOLD + 100, 3600, -3600, 2000}

\* the key sets held during a tick
KeySets == {{}, {"up"}, {"up", "left"}, {"down", "right"}}

\* the car_stats of the cars: the defaults, a poor fuel efficiency, and the
\* shop's traction, fuel and acceleration upgrades
HarnessStats ==
    {DefaultStats,
     [DefaultStats EXCEPT !.fuel_efficiency = 2],
     [DefaultStats EXCEPT !.traction = 118, !.fuel_efficiency = 122,
                          !.acceleration = 115]}

\* the terrain under the cars: Terrain(999, 5)
HarnessTerrain == TerrainOf(GenerateTerrain(LevelSeed[4], 5, 0))

\* n calls of Car.update(terrain) with no input in between
RECURSIVE Settle(_, _, _)
Settle(c, points, n) ==
    IF n = 0 \/ c.flip_damage_cooldown < 0 THEN c
    ELSE Settle(CarUpdate(c, points), points, n - 1)

\* Car(100, 550, stats)
FreshCar(stats) == NewCar(100 * UNIT, 550 * UNIT, stats, 0)

\* Car(0, 520, stats): a car at the left wall
WallCar(stats) == NewCar(0, 520 * UNIT, stats, 0)

\* a car that was dropped upside down, took the damage of the flip and was
\* left alone until its cooldown ran out
WornCar(stats) ==
    Settle([FreshCar(stats) EXCEPT !.angle = 3600], HarnessTerrain.points,
           SettleTicks)

\* keys = pygame.key.get_pressed() changes
SetKeys(ks) ==
    /\ events < MaxCarOps
    /\ ks # keys
    /\ keys' = ks
    /\ events' = events + 1
    /\ probe' = [op |-> "keys", arg |-> 0, ret |-> 0]
    /\ UNCHANGED <<running, game_state, car_stats, total_coins, saved_coins,
                   current_level, terrain, car, particles, camera_x,
                   menu_selected, level_selected, pause_selected, rng, frames>>

\* car.angle = a
ForceAngle(a) ==
    /\ events < MaxCarOps
    /\ car' = [car EXCEPT !.angle = a]
    /\ events' = events + 1
    /\ probe' = [op |-> "angle", arg |-> a, ret |-> 0]
    /\ UNCHANGED <<running, game_state, car_stats, total_coins, saved_coins,
                   current_level, terrain, particles, camera_x, menu_selected,
                   level_selected, pause_selected, rng, keys, frames>>

\* car.collect_coin(terrain.coins[i])
CallCollectCoin(i) ==
    LET coin == terrain.coins[i]
    IN  /\ events < MaxCarOps
        /\ car' = CoinCar(car, coin)
        /\ terrain' = [terrain EXCEPT !.coins[i] = CoinMarker(coin)]
        /\ events' = events + 1
        /\ probe' = [op |-> "collect_coin", arg |-> i,
                     ret |-> IF CoinResult(coin) THEN 1 ELSE 0]
        /\ UNCHANGED <<running, game_state, car_stats, total_coins,
                       saved_coins, current_level, particles, camera_x,
                       menu_selected, level_selected, pause_selected, rng,
                       keys, frames>>

\* car.collect_fuel(terrain.fuel_cans[i])
CallCollectFuel(i) ==
    LET can == terrain.fuel_cans[i]
    IN  /\ events < MaxCarOps
        /\ car' = FuelCar(car, can)
        /\ terrain' = [terrain EXCEPT !.fuel_cans[i] = FuelMarker(can)]
        /\ events' = events + 1
        /\ probe' = [op |-> "collect_fuel", arg |-> i,
                     ret |-> IF FuelResult(can) THEN 1 ELSE 0]
        /\ UNCHANGED <<running, game_state, car_stats, total_coins,
                       saved_coins, current_level, particles, camera_x,
                       menu_selected, level_selected, pause_selected, rng,
                       keys, frames>>

\* car.handle_input(keys); car.update(terrain)
Tick ==
    /\ frames < MaxCarTicks
    /\ car' = CarUpdate(handle_input(car, keys), terrain.points)
    /\ frames' = frames + 1
    /\ probe' = [op |-> "update", arg |-> 0, ret |-> 0]
    /\ UNCHANGED <<running, game_state, car_stats, total_coins, saved_coins,
                   current_level, terrain, particles, camera_x, menu_selected,
                   level_selected, pause_selected, rng, keys, events>>

CarNext ==
    \/ \E ks \in KeySets : SetKeys(ks)
    \/ \E a \in ForcedAngles : ForceAngle(a)
    \/ \E i \in 1..Len(terrain.coins) : CallCollectCoin(i)
    \/ \E i \in 1..Len(terrain.fuel_cans) : CallCollectFuel(i)
    \/ Tick

\* a car and a terrain, no Game
CarInit ==
    /\ running = TRUE
    /\ game_state = "MENU"
    /\ car_stats \in HarnessStats
    /\ total_coins = 0
    /\ saved_coins = 0
    /\ current_level = 4
    /\ terrain = HarnessTerrain
    /\ car \in {FreshCar(car_stats), WornCar(car_stats), WallCar(car_stats)}
    /\ particles = <<>>
    /\ camera_x = 0
    /\ menu_selected = 0
    /\ level_selected = 0
    /\ pause_selected = 0
    /\ rng = 4321
    /\ keys = {}
    /\ events = 0
    /\ frames = 0
    /\ probe = NoProbe

CarSpec == CarInit /\ [][CarNext]_vars

(***************************************************************************)
(* The rollover scenarios: a car left to itself on the terrain of the last *)
(* level, its orientation forced now and then, Car.update called tick      *)
(* after tick with no input.  frames counts the ticks since the last flip  *)
(* damage and probe keeps that damage.                                     *)
(***************************************************************************)
\* orientations forced on one car
MaxFlips == 2

\* the count of ticks since the last damage stops here
MaxQuiet == 60

\* an orientation is forced when the cooldown is about to run out or is a
\* multiple of this
ForcePeriod == 10

\* Car(100, 550, stats) after it has landed and come to rest
RestingCar(stats) == Settle(FreshCar(stats), HarnessTerrain.points, SettleTicks)

\* the orientation to one side (1 or -1) that the alignment of line 280
\* turns into exactly the flip threshold where the cars rest
OntoThreshold(side) ==
    LET terrain_angle == get_ground_angle(HarnessTerrain.points, 100 * UNIT)
    IN  side * (CHOOSE a \in FLIP_DAMAGE_THRESHOLD..(2 * PI) :
                    side * a + Scale(terrain_angle - side * a, 15, 100)
                        = side * FLIP_DAMAGE_THRESHOLD)

\* the orientations forced in the rollover scenarios
FlipAngles == ForcedAngles \cup {OntoThreshold(1), OntoThreshold(-1)}

\* car.angle = a
FlipForce(a) ==
    /\ events < MaxFlips
    /\ \/ car.flip_damage_cooldown <= 2
       \/ car.flip_damage_cooldown % ForcePeriod = 0
    /\ car' = [car EXCEPT !.angle = a]
    /\ events' = events + 1
    /\ UNCHANGED <<running, game_state, car_stats, total_coins, saved_coins,
                   current_level, terrain, particles, camera_x, menu_selected,
                   level_selected, pause_selected, rng, keys, frames, probe>>

\* car.update(terrain)
FlipUpdate ==
    LET c == CarUpdate(car, terrain.points)
        hit == c.health < car.health
    IN  /\ car' = c
        /\ frames' = IF hit THEN 0 ELSE Min(frames + 1, MaxQuiet)
        /\ probe' = IF hit
                    THEN [op |-> "damage", arg |-> car.health - c.health,
                          ret |-> c.flip_damage_cooldown]
                    ELSE probe
        /\ UNCHANGED <<running, game_state, car_stats, total_coins,
                       saved_coins, current_level, terrain, particles,
                       camera_x, menu_selected, level_selected,
                       pause_selected, rng, keys, events>>

FlipNext ==
    \/ \E a \in FlipAngles : FlipForce(a)
    \/ FlipUpdate

\* a car in the air above the terrain or at rest on it, not damaged yet
FlipInit ==
    /\ running = TRUE
    /\ game_state = "MENU"
    /\ car_stats \in HarnessStats
    /\ total_coins = 0
    /\ saved_coins = 0
    /\ current_level = 4
    /\ terrain = HarnessTerrain
    /\ car \in {FreshCar(car_stats), RestingCar(car_stats)}
    /\ particles = <<>>
    /\ camera_x = 0
    /\ menu_selected = 0
    /\ level_selected = 0
    /\ pause_selected = 0
    /\ rng = 4321
    /\ keys = {}
    /\ events = 0
    /\ frames = 0
    /\ probe = NoProbe

FlipSpec == FlipInit /\ [][FlipNext]_vars

(***************************************************************************)
(* The hand-made terrains: a Terrain whose point list was replaced by an   *)
(* empty, a flat or a stepped one, queried at some positions, and a car    *)
(* placed on it at x = 0 and ticked with no key held.                      *)
(***************************************************************************)
\* ticks of the car at rest
MaxRestTicks == 100

\* terrain.points = [], a flat line, a flat line whose first point is
\* doubled, and a step down at x = 0 followed by a step up at x = 100
HandPoints ==
    {<<>>,
     <<<<0, 600 * UNIT>>, <<1000 * UNIT, 600 * UNIT>>>>,
     <<<<0, 600 * UNIT>>, <<0, 600 * UNIT>>, <<1000 * UNIT, 600 * UNIT>>>>,
     <<<<0, 600 * UNIT>>, <<0, 560 * UNIT>>, <<100 * UNIT, 560 * UNIT>>,
       <<100 * UNIT, 520 * UNIT>>, <<200 * UNIT, 520 * UNIT>>>>}

\* Terrain(42, 1) with its points replaced and no hazard or marker
HandTerrain(points) ==
    [NoTerrain EXCEPT !.seed = LevelSeed[0], !.difficulty = 1,
                      !.points = points]

\* the positions queried on the hand-made terrains
HandXs == {-5 * UNIT, 0, 50 * UNIT, 100 * UNIT, 250 * UNIT}

\* Car(0, y, stats) with y such that the car stands on the ground
StandingCar(points, stats) ==
    NewCar(0, get_ground_height(points, 0) - HALF_HEIGHT * UNIT, stats, 0)

\* car.handle_input(keys); car.update(terrain) with no key held
RestTick ==
    /\ frames < MaxRestTicks
    /\ car' = CarUpdate(handle_input(car, {}), terrain.points)
    /\ frames' = frames + 1
    /\ probe' = [op |-> "update", arg |-> 0, ret |-> 0]
    /\ UNCHANGED <<running, game_state, car_stats, total_coins, saved_coins,
                   current_level, terrain, particles, camera_x, menu_selected,
                   level_selected, pause_selected, rng, keys, events>>

RestNext ==
    \/ \E x \in HandXs : QueryHeight(x)
    \/ \E x \in HandXs : QueryAngle(x)
    \/ RestTick

RestInit ==
    /\ running = TRUE
    /\ game_state = "MENU"
    /\ car_stats \in HarnessStats
    /\ total_coins = 0
    /\ saved_coins = 0
    /\ current_level = 0
    /\ terrain \in {HandTerrain(points) : points \in HandPoints}
    /\ car = StandingCar(terrain.points, car_stats)
    /\ particles = <<>>
    /\ camera_x = 0
    /\ menu_selected = 0
    /\ level_selected = 0
    /\ pause_selected = 0
    /\ rng = 4321
    /\ keys = {}
    /\ events = 0
    /\ frames = 0
    /\ probe = NoProbe

RestSpec == RestInit /\ [][RestNext]_vars

(***************************************************************************)
(* A long run of the first level: the game just started, Game.update frame *)
(* after frame, the brake key pressed and released now and then.  A car    *)
(* that brakes on the ground raises dust in every frame and stays where it *)
(* is, so that the particle pool fills up.                                 *)
(***************************************************************************)
\* frames of the long run
MaxLongFrames == 110

\* the brake key changes only in frames that are multiples of this
BrakePeriod == 20

\* the level of the long run
LongLevel == 0

\* start_game(LongLevel) with the generator in the state of Init
LongStart == GenerateTerrain(LevelSeed[LongLevel], LongLevel + 1, 4321)

\* K_DOWN goes down or up
ToggleBrake ==
    /\ frames % BrakePeriod = 0
    /\ frames < MaxLongFrames
    /\ keys' = IF "down" \in keys THEN {} ELSE {"down"}
    /\ UNCHANGED <<running, game_state, car_stats, total_coins, saved_coins,
                   current_level, terrain, car, particles, camera_x,
                   menu_selected, level_selected, pause_selected, rng, events,
                   frames, probe>>

\* Game.update
LongUpdate == UpdateWithin(MaxLongFrames)

LongNext == ToggleBrake \/ LongUpdate

\* the state that start_game(LongLevel) leaves
LongInit ==
    /\ running = TRUE
    /\ game_state = "PLAYING"
    /\ car_stats = DefaultStats
    /\ total_coins = 0
    /\ saved_coins = 0
    /\ current_level = LongLevel
    /\ terrain = TerrainOf(LongStart)
    /\ car = NewCar(100 * UNIT, 300 * UNIT, car_stats, LongStart.rng)
    /\ particles = <<>>
    /\ camera_x = 0
    /\ menu_selected = 0
    /\ level_selected = LongLevel
    /\ pause_selected = 0
    /\ rng = RngNext(LongStart.rng)
    /\ keys = {}
    /\ events = 0
    /\ frames = 0
    /\ probe = NoProbe

LongSpec == LongInit /\ [][LongNext]_vars

(***************************************************************************)
(* A run of the last level with a thirsty engine (fuel_efficiency 0.05 in  *)
(* the save file): the game just started, the car falls next to the first  *)
(* fuel can, and keys are pressed once, in any frame.                      *)
(***************************************************************************)
\* frames of the thirsty run
MaxDryFrames == 32

\* the keys that are pressed together
DrySets == {{"up"}, {"up", "left"}, {"up", "down"}, {"up", "down", "left"}}

\* start_game(4) with the generator in the state of Init
DryStart == GenerateTerrain(LevelSeed[4], 5, 4321)

\* the keys of ks go down, none was down before
DryPress(ks) ==
    /\ keys = {}
    /\ frames < MaxDryFrames
    /\ keys' = ks
    /\ UNCHANGED <<running, game_state, car_stats, total_coins, saved_coins,
                   current_level, terrain, car, particles, camera_x,
                   menu_selected, level_selected, pause_selected, rng, events,
                   frames, probe>>

\* Game.update
DryUpdate == UpdateWithin(MaxDryFrames)

DryNext == (\E ks \in DrySets : DryPress(ks)) \/ DryUpdate

\* the state that start_game(4) leaves
DryInit ==
    /\ running = TRUE
    /\ game_state = "PLAYING"
    /\ car_stats = [DefaultStats EXCEPT !.fuel_efficiency = 5]
    /\ total_coins = 0
    /\ saved_coins = 0
    /\ current_level = 4
    /\ terrain = TerrainOf(DryStart)
    /\ car = NewCar(100 * UNIT, 300 * UNIT, car_stats, DryStart.rng)
    /\ particles = <<>>
    /\ camera_x = 0
    /\ menu_selected = 0
    /\ level_selected = 4
    /\ pause_selected = 0
    /\ rng = RngNext(DryStart.rng)
    /\ keys = {}
    /\ events = 0
    /\ frames = 0
    /\ probe = NoProbe

DrySpec == DryInit /\ [][DryNext]_vars

(***************************************************************************)
(* The claims about Car.update, checked under CarSpec.                     *)
(***************************************************************************)
\* C1: across any sequence of Car.update ticks, with any inputs and any
\* interleaved pickups, health never increases: the health after a step is
\* at most the health before it.
C1_HealthNeverIncreases == [][car'.health <= car.health]_vars

\* C2: after every Car.update tick the health lies in [0, max_health],
\* whatever damage was applied in the tick.
C2_HealthInRange ==
    probe.op = "update" => 0 <= car.health /\ car.health <= car.max_health

\* C3: after every tick, and after any fuel-can collection that follows it,
\* 0 <= fuel <= max_fuel, for every input sequence and every acceleration
\* and fuel-efficiency multiplier.
C3_FuelInRange == 0 <= car.fuel /\ car.fuel <= car.max_fuel

\* C3, its case: the car has burnt fuel in some ticks and then collects a
\* can that would lift the fuel above max_fuel.
C3_Witness ==
    /\ frames > 0
    /\ probe.op = "collect_fuel"
    /\ probe.ret = 1
    /\ car.engine_power > 0
    /\ car.fuel = car.max_fuel

(***************************************************************************)
(* The claims about the pickups.                                           *)
(***************************************************************************)
\* a step of Game.update while PLAYING
PlayTick == game_state = "PLAYING" /\ frames' = frames + 1

\* C4: Game.update ends the run (PLAYING -> GAME_OVER) in a tick if and
\* only if the health is <= 0 at the end of that tick; exhausting the fuel
\* does not by itself end the run.
C4_EndsOnlyOnHealth ==
    [][PlayTick => (game_state' = "GAME_OVER" <=> car'.health <= 0)]_vars

\* the markers of a list whose collected flag is true
Collected(markers) == {i \in 1..Len(markers) : markers[i].collected}

\* the summed value of the collected coin markers
RECURSIVE CollectedValue(_, _)
CollectedValue(coins, i) ==
    IF i > Len(coins) THEN 0
    ELSE (IF coins[i].collected THEN coins[i].value ELSE 0)
         + CollectedValue(coins, i + 1)

\* C5: during a run each marker's collected flag changes at most once, from
\* false to true, and never reverts, and each coin is credited exactly once:
\* car.coins_collected is the number of collected coin markers, and
\* total_coins grows in a tick by the value of the coins collected in it.
C5_CreditedOnce ==
    [][/\ car'.coins_collected = Cardinality(Collected(terrain'.coins))
       /\ PlayTick =>
             /\ Collected(terrain.coins) \subseteq Collected(terrain'.coins)
             /\ Collected(terrain.fuel_cans)
                  \subseteq Collected(terrain'.fuel_cans)
             /\ total_coins' - total_coins
                  = CollectedValue(terrain'.coins, 1)
                    - CollectedValue(terrain.coins, 1)]_vars

\* C5, its case: the run has collected a coin, and ticks follow in which
\* the car is still within reach of the collected marker.
C5_Witness ==
    /\ game_state = "PLAYING"
    /\ \E i \in Collected(terrain.coins) : Near(car, terrain.coins[i])
    /\ car.coins_collected = 1
    /\ total_coins = 1

\* C6: collect_coin or collect_fuel called on a marker whose collected flag
\* is already true returns False and leaves the marker, the car's coin
\* count, the car's fuel and total_coins unchanged, however often repeated.
C6_CollectedIsNoOp ==
    [][/\ events' = events + 1
       /\ \/ /\ probe'.op = "collect_coin"
             /\ terrain.coins[probe'.arg].collected
          \/ /\ probe'.op = "collect_fuel"
             /\ terrain.fuel_cans[probe'.arg].collected
       => /\ probe'.ret = 0
          /\ terrain' = terrain
          /\ car' = car
          /\ total_coins' = total_coins]_vars

\* C6, its case: a marker was collected and collect_coin was called on it
\* again.
C6_Witness ==
    /\ probe.op = "collect_coin"
    /\ probe.ret = 0
    /\ terrain.coins[probe.arg].collected
    /\ car.coins_collected = 1

(***************************************************************************)
(* The claims about the terrain.                                           *)
(***************************************************************************)
\* each level's terrain as generated with the random module fresh from
\* import (state 0)
FreshTerrain == [i \in 0..4 |-> TerrainOf(GenerateTerrain(LevelSeed[i], i + 1, 0))]

\* the terrain t with every collected flag reset
Unmarked(t) ==
    [t EXCEPT !.coins = [i \in 1..Len(@) |-> [@[i] EXCEPT !.collected = FALSE]],
              !.fuel_cans = [i \in 1..Len(@) |->
                               [@[i] EXCEPT !.collected = FALSE]]]

\* C7: two generations with the same seed and difficulty give the same
\* points, hazards, coins and fuel cans, whatever random draws were made
\* before or between them: every terrain of the game is the terrain that a
\* fresh generator gives for its level.
C7_Deterministic ==
    terrain # NoTerrain => Unmarked(terrain) = FreshTerrain[current_level]

\* C7, its case: a level was restarted after frames of an earlier run, so
\* its terrain is a second generation, made after the draw of a car colour.
C7_Witness ==
    /\ game_state = "PLAYING"
    /\ frames >= KeyPeriod
    /\ car.y = 300 * UNIT
    /\ car.vy = 0
    /\ rng # 4321
    /\ terrain = FreshTerrain[current_level]

\* C8: in every generated terrain the points have non-decreasing x, also
\* before, inside and after every hazard triplet.
C8_PointsSorted ==
    \A i \in 1..(Len(terrain.points) - 1) :
        terrain.points[i][1] <= terrain.points[i + 1][1]

\* v lies between a and b
Between(v, a, b) == Min(a, b) <= v /\ v <= Max(a, b)

\* C9: for consecutive points (x1,y1), (x2,y2) of a generated terrain,
\* get_ground_height(x1) = y1 and get_ground_height(x2) = y2, and for x
\* between x1 and x2 the height lies between y1 and y2.
C9_Interpolates ==
    \A i \in 1..(Len(terrain.points) - 1) :
        LET x1 == terrain.points[i][1]
            y1 == terrain.points[i][2]
            x2 == terrain.points[i + 1][1]
            y2 == terrain.points[i + 1][2]
        IN  /\ get_ground_height(terrain.points, x1) = y1
            /\ get_ground_height(terrain.points, x2) = y2
            /\ \A x \in {x1 + k * UNIT : k \in 1..4} :
                   x < x2 => Between(get_ground_height(terrain.points, x),
                                     y1, y2)

\* C10: for x before the first point get_ground_height returns the first
\* point's height, and for x after the last point the last point's height.
C10_NearestBoundary ==
    probe.op = "get_ground_height" =>
        /\ probe.arg < terrain.points[1][1] => probe.ret = terrain.points[1][2]
        /\ probe.arg > terrain.points[Len(terrain.points)][1]
             => probe.ret = terrain.points[Len(terrain.points)][2]

(***************************************************************************)
(* The claims about starvation, rollover damage and distance.              *)
(***************************************************************************)
\* C11: with the fuel at 0 (no pickup) and health h > 0, every tick lowers
\* the health by exactly the starvation drain 0.5, floored at 0, and the
\* run is reported ended in the tick in which the health reaches 0.
C11_DrainUntilDead ==
    [][PlayTick /\ car'.fuel = 0 =>
          /\ car'.health = Max(0, car.health - UNIT \div 2)
          /\ game_state' = "GAME_OVER" <=> car'.health = 0]_vars

\* under FlipSpec, the steps that are calls of Car.update
FlipTick == events' = events

\* the orientation a after the alignment of a grounded car at position x
Aligned(a, x) ==
    a + Scale(get_ground_angle(HarnessTerrain.points, x) - a, 15, 100)

\* C12 as stated: a tick that starts grounded, with the cooldown at 0 and
\* the orientation at flip_threshold + 0.1, applies the severe damage
\* min(60, 20 a) and sets the cooldown to 60.
C12_SevereAtForcedAngle ==
    [][FlipTick /\ car.is_grounded /\ car.flip_damage_cooldown = 0
          /\ car.angle = FLIP_DAMAGE_THRESHOLD + 100 =>
          /\ car'.flip_damage_cooldown = 60
          /\ car.health - car'.health
                 \in {Min(60 * UNIT, 2 * car.angle),
                      Min(60 * UNIT, 2 * Abs(car'.angle))}]_vars

\* C12 amended: a tick of a car on the ground that starts with the
\* cooldown at 0 and the orientation at flip_threshold + 0.1 first aligns
\* the orientation with the terrain, which brings it between the two
\* thresholds, then applies the moderate damage min(20, 5 a) for the
\* aligned orientation a and sets the cooldown to 30; none of the next 29
\* ticks applies damage, whatever the orientation.
C12_ModerateAtAlignedAngle ==
    [][FlipTick =>
          /\ car.is_grounded /\ car'.is_grounded
                /\ car.flip_damage_cooldown = 0
                /\ car.angle = FLIP_DAMAGE_THRESHOLD + 100 =>
                LET a == Abs(Aligned(car.angle, car.x))
                IN  /\ ROLLOVER_THRESHOLD < a /\ a < FLIP_DAMAGE_THRESHOLD
                    /\ car'.angle = Aligned(car.angle, car.x)
                    /\ car'.health = car.health - Min(20 * UNIT, a \div 2)
                    /\ car'.flip_damage_cooldown = 30
          /\ probe.op = "damage" /\ probe.ret = 30 /\ frames < 29 =>
                car'.health = car.health]_vars

\* the scenario of C12 has happened on a car at rest, and ten ticks later
\* the car was turned on its roof again and ticked
C12_Witness ==
    LET a == Abs(Aligned(FLIP_DAMAGE_THRESHOLD + 100, car.x))
    IN  /\ probe = [op |-> "damage", arg |-> Min(20 * UNIT, a \div 2),
                    ret |-> 30]
        /\ car.health = car.max_health - probe.arg
        /\ car.is_grounded
        /\ frames = 11
        /\ Abs(car.angle) > FLIP_DAMAGE_THRESHOLD

\* C13: in a grounded tick with the cooldown expired, with a = |angle| at
\* the damage evaluation: rollover_threshold < a < flip_threshold applies
\* the moderate damage min(20, 5 a) and the cooldown 30; a >= flip_threshold,
\* a = flip_threshold included, applies the severe damage min(60, 20 a) and
\* the cooldown 60; a <= rollover_threshold applies no damage.
C13_DamageByAngle ==
    [][FlipTick /\ car'.is_grounded /\ car.flip_damage_cooldown <= 1 =>
          LET a == Abs(car'.angle)
              damage == car.health - car'.health
          IN  /\ a <= ROLLOVER_THRESHOLD => damage = 0
              /\ ROLLOVER_THRESHOLD < a /\ a < FLIP_DAMAGE_THRESHOLD =>
                    damage = Min(20 * UNIT, a \div 2)
                        /\ car'.flip_damage_cooldown = 30
              /\ a >= FLIP_DAMAGE_THRESHOLD =>
                    damage = Min(60 * UNIT, 2 * a)
                        /\ car'.flip_damage_cooldown = 60]_vars

\* C20: rollover damage is rate-limited by the cooldown: a tick applies
\* damage only if the car is grounded in it, only if at least 29 ticks
\* without damage have passed since the last moderate damage (at most 20),
\* and only if at least 59 have passed since the last severe one.
C20_RateLimited ==
    [][FlipTick /\ car'.health < car.health =>
          /\ car'.is_grounded
          /\ probe.op = "damage" /\ probe.arg <= 20 * UNIT => frames >= 29
          /\ probe.op = "damage" /\ probe.arg > 20 * UNIT => frames >= 59]_vars

\* a car that was damaged, turned over again before the cooldown had run
\* out, and damaged a second time
C20_Witness ==
    /\ events = 2
    /\ probe.op = "damage"
    /\ frames = 0
    /\ car.max_health - car.health > probe.arg
    /\ car.flip_damage_cooldown = probe.ret

\* C14: distance_traveled is the sum over the ticks of |x at the end of the
\* tick - x at its start|, x being the position after the left-wall clamp:
\* every step adds exactly |x' - x| to it, so a step that leaves x alone
\* adds 0 and the distance never decreases.
C14_DistanceIsPathLength ==
    [][car'.distance_traveled = car.distance_traveled + Abs(car'.x - car.x)]_vars

(***************************************************************************)
(* The claims about the pickups and the degenerate terrains.               *)
(***************************************************************************)
\* C15: no coin and no fuel can is placed inside a hazard notch: for every
\* hazard inserted at the sample x (its record holds x + 20), no marker of
\* the terrain has its x strictly between x and x + 40.
C15_NoPickupInNotch ==
    \A h \in 1..Len(terrain.hazards) :
        LET x == terrain.hazards[h].x - 20 * UNIT
            Inside(m) == x < m.x /\ m.x < x + 40 * UNIT
        IN  /\ \A i \in 1..Len(terrain.coins) : ~Inside(terrain.coins[i])
            /\ \A i \in 1..Len(terrain.fuel_cans) :
                   ~Inside(terrain.fuel_cans[i])

\* C16: a car at rest at x = 0 on flat ground (terrain angle 0), ticked
\* 100 times with no throttle, brake or steering, has x = 0, health 100 and
\* fuel 100 after every one of the ticks.
C16_StaysAtRest ==
    get_ground_angle(terrain.points, 0) = 0 /\ frames <= 100 =>
        /\ car.x = 0
        /\ car.health = 100 * UNIT
        /\ car.fuel = 100 * UNIT

\* the hundredth tick of the car on flat ground is done
C16_Witness ==
    /\ get_ground_angle(terrain.points, 0) = 0
    /\ frames = 100
    /\ probe.op = "update"
    /\ car.is_grounded
    /\ car.vx = 0 /\ car.angle = 0

\* the first segment of the point list that brackets x, 0 if there is none
Bracketing(x) ==
    LET n == Len(terrain.points)
        Brackets(i) == terrain.points[i][1] <= x /\ x <= terrain.points[i + 1][1]
    IN  IF \E i \in 1..(n - 1) : Brackets(i)
        THEN CHOOSE i \in 1..(n - 1) :
                 Brackets(i) /\ \A j \in 1..(i - 1) : ~Brackets(j)
        ELSE 0

\* C17: with an empty point list get_ground_height returns the fallback
\* 600 and get_ground_angle returns 0; when the two points of the
\* bracketing segment share their x, get_ground_height returns the height
\* of the first of the two.
C17_DegenerateTerrain ==
    /\ probe.op = "get_ground_height" /\ terrain.points = <<>> =>
          probe.ret = 600 * UNIT
    /\ probe.op = "get_ground_angle" /\ terrain.points = <<>> =>
          probe.ret = 0
    /\ probe.op = "get_ground_height" /\ Bracketing(probe.arg) # 0 =>
          LET i == Bracketing(probe.arg)
          IN  terrain.points[i][1] = terrain.points[i + 1][1] =>
                  probe.ret = terrain.points[i][2]

\* the height was asked where a segment of no width and two heights is the
\* bracketing one
C17_Witness ==
    /\ probe.op = "get_ground_height"
    /\ Bracketing(probe.arg) # 0
    /\ LET i == Bracketing(probe.arg)
       IN  /\ terrain.points[i][1] = terrain.points[i + 1][1]
           /\ terrain.points[i][2] # terrain.points[i + 1][2]
           /\ probe.ret = terrain.points[i][2]

(***************************************************************************)
(* The claims about what a frame leaves alone, checked under Spec.         *)
(***************************************************************************)
\* start_game has just run: a new car on the new terrain of the level, no
\* particle effect
Restarted ==
    /\ game_state' = "PLAYING"
    /\ terrain' = FreshTerrain[current_level']
    /\ [car' EXCEPT !.color = 0]
           = [NewCar(100 * UNIT, 300 * UNIT, car_stats, 0) EXCEPT !.color = 0]
    /\ particles' = <<>>
    /\ total_coins' = total_coins

\* C18: while the game is not PLAYING no key event and no Game.update
\* changes the car, the terrain with its pickup flags, the particle effects
\* or the coin total, unless the level is started from the level menu or
\* restarted from the pause menu; pausing changes none of them either, so
\* that a resumed run goes on from the state it was paused in.
C18_FrozenOutsidePlay ==
    [][game_state # "PLAYING" \/ game_state' = "PAUSED" =>
          \/ /\ car' = car
             /\ terrain' = terrain
             /\ particles' = particles
             /\ total_coins' = total_coins
          \/ /\ \/ game_state = "LEVEL_SELECT"
                \/ game_state = "PAUSED" /\ pause_selected = 1
             /\ Restarted]_vars

\* the game is paused in the middle of a run, with particle effects alive,
\* and a key has moved the selection of the pause menu
C18_Witness ==
    /\ game_state = "PAUSED"
    /\ pause_selected # 0
    /\ particles # <<>>
    /\ car.is_grounded
    /\ car.distance_traveled > 0

\* the markers after a step: as many as before, each one equal to what it
\* was but for a collected flag that went from false to true
OnlyCollected(before, after) ==
    /\ Len(after) = Len(before)
    /\ \A i \in 1..Len(before) :
          /\ [after[i] EXCEPT !.collected = FALSE]
                 = [before[i] EXCEPT !.collected = FALSE]
          /\ before[i].collected => after[i].collected

\* C19: after the generation no frame of a run (input handling,
\* Car.update, pickup resolution, particle update) changes terrain.points
\* or terrain.hazards, nor any field of a coin or fuel-can marker other
\* than its collected flag, which only goes from false to true.
C19_TerrainReadOnly ==
    [][game_state = "PLAYING" =>
          /\ terrain'.points = terrain.points
          /\ terrain'.hazards = terrain.hazards
          /\ OnlyCollected(terrain.coins, terrain'.coins)
          /\ OnlyCollected(terrain.fuel_cans, terrain'.fuel_cans)]_vars

\* a frame has collected a fuel can, and the car is still next to it
C19_Witness ==
    /\ game_state = "PLAYING"
    /\ \E i \in Collected(terrain.fuel_cans) :
          /\ Near(car, terrain.fuel_cans[i])
          /\ terrain.fuel_cans[i].fuel = 35 * UNIT

(***************************************************************************)
(* The claims about the particle effects, checked under LongSpec.          *)
(***************************************************************************)
\* the number of updates that the effect b has been through
BatchAge(b) == b[1].max_lifetime - b[1].lifetime

\* the largest initial lifetime of the particles of the effect b
BatchLife(b) ==
    LET lives == {b[k].max_lifetime : k \in 1..Len(b)}
    IN  CHOOSE l \in lives : \A m \in lives : m <= l

\* the effects of the pool that are not on their last update
Surviving ==
    SelectSeq([i \in 1..Len(particles) |-> i],
              LAMBDA i : BatchAge(particles[i]) + 1 < BatchLife(particles[i]))

\* C21: every update of an effect lowers the lifetime of each of its
\* particles by exactly 1 and removes the particles whose lifetime gets to
\* 0; an effect whose largest initial lifetime is L (at most 70) stays in
\* the pool through its first L - 1 updates and is dropped by the frame of
\* its L-th update.
C21_BatchLivesLUpdates ==
    [][frames' = frames + 1 =>
          LET n == Len(Surviving)
          IN  /\ Len(particles') \in {n, n + 1}
              /\ \A j \in 1..n :
                    LET before == particles[Surviving[j]]
                        after == particles'[j]
                        age == BatchAge(before) + 1
                    IN  /\ BatchLife(after) = BatchLife(before)
                        /\ Len(after) = Cardinality(
                               {k \in 1..Len(before) :
                                   before[k].max_lifetime > age})
                        /\ \A k \in 1..Len(after) :
                               after[k].lifetime
                                   = after[k].max_lifetime - age
              /\ Len(particles') = n + 1 =>
                    LET new == particles'[n + 1]
                    IN  /\ BatchLife(new) <= 70
                        /\ \A k \in 1..Len(new) :
                               new[k].lifetime = new[k].max_lifetime - 1]_vars

\* effects were made and every one of them has been dropped
C21_Witness ==
    /\ game_state = "PLAYING"
    /\ particles = <<>>
    /\ rng # RngNext(LongStart.rng)
    /\ frames > 70

\* C26: the particle pool is bounded: after the prune of any frame it
\* holds at most 69 effects, and every effect in it has a particle.
C26_PoolBounded ==
    /\ Len(particles) <= 69
    /\ \A i \in 1..Len(particles) : Len(particles[i]) >= 1

\* the brake has raised dust for more than 70 frames on end
C26_Witness ==
    /\ "down" \in keys
    /\ frames >= 100
    /\ Len(particles) > 60

(***************************************************************************)
(* The claims about the car of a run of the game, checked under Spec.      *)
(***************************************************************************)
\* C22: in every state of a run of the game |angle| is at most the
\* rollover threshold pi / 2, so that the rollover and flip branches never
\* run: the cooldown stays 0 and a frame changes the health only by the
\* starvation drain or by the fall-out, which sets it to 0.
C22_NeverRollsOver ==
    /\ Abs(car.angle) <= ROLLOVER_THRESHOLD
    /\ car.flip_damage_cooldown = 0
    /\ \/ car.health = car.max_health - (UNIT \div 2) * ((car.max_health - car.health) \div (UNIT \div 2))
       \/ car.health = 0

\* a car that was steered to the limit in the air and has landed, a steer
\* key still held
C22_Witness ==
    /\ game_state = "PLAYING"
    /\ keys \cap {"left", "right"} # {}
    /\ car.is_grounded
    /\ Abs(car.angle) > 900

\* C23: in a run of the game the horizontal velocity is never negative
\* after a frame, so the x of the car never decreases from one frame to
\* the next and the left-wall branch (x < 0) of Car.update is never taken:
\* the position before the clamp, kept in last_x, is the position.
C23_NeverBackwards ==
    [][PlayTick =>
          /\ car'.vx >= 0
          /\ car'.x >= car.x
          /\ car'.last_x = car'.x /\ car'.last_x >= 0]_vars

\* a car that drives on the ground, leaning against the slope
C23_Witness ==
    /\ game_state = "PLAYING"
    /\ car.is_grounded
    /\ car.vx > 0
    /\ car.x > 100 * UNIT
    /\ car.angle < 0

(***************************************************************************)
(* The claim about the order within a frame, checked under DrySpec.        *)
(***************************************************************************)
\* C24: within one frame of Game.update the car is stepped, then the
\* pickups are resolved, then the game-over test is made: if the step
\* drives the fuel to 0 and an uncollected fuel can lies within 50 of the
\* car after the step, the can is collected and the fuel is above 0 again
\* before the test, so that the run goes on, while the health has taken the
\* starvation drain of that frame.
C24_RefillBeforeGameOver ==
    [][PlayTick =>
          LET c1 == CarUpdate(handle_input(car, keys), terrain.points)
              near == {i \in 1..Len(terrain.fuel_cans) :
                          /\ ~terrain.fuel_cans[i].collected
                          /\ Near(c1, terrain.fuel_cans[i])}
          IN  c1.fuel = 0 /\ near # {} =>
                  /\ \A i \in near : terrain'.fuel_cans[i].collected
                  /\ car'.fuel > 0
                  /\ car'.health = Max(0, car.health - UNIT \div 2)
                  /\ car'.health > 0 => game_state' = "PLAYING"]_vars

\* the run goes on with the 35 units of a can in a tank that was empty,
\* one starvation drain taken
C24_Witness ==
    /\ game_state = "PLAYING"
    /\ car.fuel = 35 * UNIT
    /\ car.health = car.max_health - UNIT \div 2
    /\ \E i \in Collected(terrain.fuel_cans) : Near(car, terrain.fuel_cans[i])

(***************************************************************************)
(* Further claims about Car.update, checked under CarSpec.                 *)
(***************************************************************************)
\* a tick of the harness: handle_input and Car.update
CarTick == frames' = frames + 1

\* the car of a tick after the forces of lines 246-261, before the ground
\* collision of lines 263-293
BeforeContact == EngineStep(handle_input(car, keys))

\* the car of a tick after the ground collision
AfterContact == GroundStep(BeforeContact, terrain.points)

\* C25: ground contact never speeds the vehicle up: for every traction
\* multiplier from 1.0 on, baseline or upgraded by the traction boost of
\* the shop, |vx| after the friction step of a grounded car is at most
\* |vx| before that step.
C25_ContactNeverSpeedsUp ==
    [][CarTick /\ AfterContact.is_grounded /\ car_stats.traction >= 100 =>
          Abs(AfterContact.vx) <= Abs(BeforeContact.vx)]_vars

\* the orientation that handle_input leaves in a tick
Steered == handle_input(car, keys).angle

\* C27: with a steer key held handle_input moves the orientation by at
\* most the steering increment of 0.08 rad in that tick, toward pi/3 (left)
\* or -pi/3 (right) and never beyond it, from any orientation; with no
\* steer key held it multiplies the orientation by 0.92.
C27_SteersByIncrement ==
    [][CarTick =>
          IF "left" \in keys \/ "right" \in keys
          THEN /\ Abs(Steered - car.angle) <= 80
               /\ "left" \in keys /\ Steered > car.angle => Steered <= MAX_STEER
               /\ "right" \in keys /\ Steered < car.angle => Steered >= -MAX_STEER
          ELSE Steered = Scale(car.angle, 92, 100)]_vars

(***************************************************************************)
(* The claim about the hazards, checked under TerrainSpec.                 *)
(***************************************************************************)
\* the indexes of the points that a notch follows: the next point lies 20
\* further and the point before does not lie 20 behind, where a sample is
\* followed by the sample 5 further (or, after a notch, by one that lies
\* behind) and only the bottom of a notch has a point 20 behind it
Notches ==
    {k \in 1..(Len(terrain.points) - 1) :
        /\ terrain.points[k + 1][1] = terrain.points[k][1] + 20 * UNIT
        /\ k > 1 => terrain.points[k - 1][1] # terrain.points[k][1] - 20 * UNIT}

\* int(60 * (0.5 + difficulty)), in hundredths
HoleDepth == ((60 * (5 + 10 * terrain.difficulty)) \div 10) * UNIT

\* the samples of range(0, int(TERRAIN_LENGTH), 5)
NumSamples == (TERRAIN_LENGTH + 4) \div 5

\* C28: hazard notches are inserted only at samples x with x mod 150 = 0;
\* each insertion appends exactly the points (x + 20, y + depth) and
\* (x + 40, y) after (x, y) and exactly one hazard marker at x + 20, so
\* that there are as many markers as notches; with difficulty 0 no hazard
\* is generated.
C28_HazardsAtNotches ==
    terrain # NoTerrain =>
        /\ \A k \in Notches :
               LET x == terrain.points[k][1]
                   y == terrain.points[k][2]
               IN  /\ (x \div UNIT) % 150 = 0 /\ x % UNIT = 0
                   /\ terrain.points[k + 1] = <<x + 20 * UNIT, y + HoleDepth>>
                   /\ k + 2 <= Len(terrain.points)
                   /\ terrain.points[k + 2] = <<x + 40 * UNIT, y>>
                   /\ Cardinality({h \in 1..Len(terrain.hazards) :
                          terrain.hazards[h].x = x + 20 * UNIT}) = 1
        /\ \A h \in 1..Len(terrain.hazards) :
               \E k \in Notches :
                   terrain.hazards[h].x = terrain.points[k][1] + 20 * UNIT
        /\ Len(terrain.hazards) = Cardinality(Notches)
        /\ Len(terrain.points) = NumSamples + 2 * Len(terrain.hazards)
        /\ terrain.difficulty = 0 => terrain.hazards = <<>>

\* a terrain with a notch in it
C28_Witness == terrain # NoTerrain /\ Notches # {} /\ terrain.hazards # <<>>

\* the tick that ends has put the car back to the left wall (line 308):
\* last_x keeps the position of line 296
Clamped == car.last_x < 0

\* C29: after every tick of Car.update the x of the car is at least 0, and
\* whenever the tick has put x back to 0 at the left wall the horizontal
\* velocity is 0 afterwards.
C29_LeftWallStopsCar ==
    [][CarTick => car'.x >= 0 /\ (Clamped' => car'.x = 0 /\ car'.vx = 0)]_vars

\* a car that a tick has put back to the wall after thrust to the left
C29_Witness ==
    /\ probe.op = "update"
    /\ Clamped
    /\ car.x = 0
    /\ car.vx = 0
    /\ car.distance_traveled > 0

\* the car of a tick after handle_input
Driven == handle_input(car, keys)

\* the engine acts in the tick: throttle engaged and fuel in the tank
EngineOn == Driven.engine_power > 0 /\ Driven.fuel > 0

\* engine_power * 0.3 / fuel_efficiency, the fuel of one tick of thrust
Burnt == QuoT(Driven.engine_power * 30, Driven.stats.fuel_efficiency)

\* the car of the tick with the throttle released
Coasting == [Driven EXCEPT !.engine_power = 0]

\* the coasting car with the thrust impulse cos/sin(angle) * engine_power *
\* 0.8 added to its velocity and the burnt fuel taken from its tank
Pushed ==
    [Coasting EXCEPT
        !.vx = @ + Scale(Cos(Driven.angle) * Driven.engine_power, 8, 10000),
        !.vy = @ + Scale(Sin(Driven.angle) * Driven.engine_power, 8, 10000),
        !.fuel = Max(0, @ - Burnt)]

\* C30: the engine acts only with throttle engaged and fuel > 0: in such a
\* tick the fuel decreases by engine_power * 0.3 / fuel_efficiency, floored
\* at 0, and the velocity gains the thrust impulse, so that the tick ends as
\* a tick without throttle does that starts with this fuel and velocity;
\* with no throttle, or with throttle and fuel 0, the engine leaves fuel and
\* velocity alone and the tick ends as a tick without throttle does.
C30_EngineNeedsThrottleAndFuel ==
    [][CarTick =>
          /\ car'.fuel = IF EngineOn THEN Max(0, car.fuel - Burnt) ELSE car.fuel
          /\ car' = [CarUpdate(IF EngineOn THEN Pushed ELSE Coasting,
                               terrain.points)
                     EXCEPT !.engine_power = Driven.engine_power]]_vars

\* a tick with the throttle engaged on an empty tank has ended: the car
\* has starved in two ticks at least
C30_Witness ==
    /\ probe.op = "update"
    /\ car.engine_power > 0
    /\ car.fuel = 0
    /\ car.health <= car.max_health - UNIT
    /\ car.health > 0

=============================================================================
